---------------------------- MODULE Spec2Model ----------------------------
(***************************************************************************)
(* Model of the transparent gateway's failover engine:                     *)
(*   circuit_breaker.py  CircuitBreaker, CircuitBreakerManager             *)
(*   proxy.py            proxy_request, _handle_normal_request,            *)
(*                       _handle_streaming_request and their helpers       *)
(*   main.py             /_health and /_reset_circuit                      *)
(*                                                                         *)
(* Time is a discrete clock `now`.  Code that runs between two awaits of   *)
(* the asyncio event loop is one atomic action; a request is suspended     *)
(* while it waits for an upstream (pc = "wait") or pipes a stream.         *)
(***************************************************************************)
EXTENDS Integers, Sequences, FiniteSets, TLC

VARIABLES
    breakers,     \* CircuitBreakerManager._breakers: name -> CircuitBreaker fields
    now,          \* time.time()
    reqs,         \* the client requests being served, by slot
    callbacks,    \* names passed to an auto-reset callback, in call order
    hist,         \* history per breaker (never read by the modelled code)
    lastCall,     \* last CircuitBreaker method called directly and what it returned
    helper        \* last header helper of proxy.py called directly: arguments and result

vars == <<breakers, now, reqs, callbacks, hist, lastCall, helper>>

---------------------------------------------------------------------------
(* Bounds of the model *)

NumProviders == 3       \* len(config.providers)
FailureThreshold == 2   \* config.circuit_breaker_threshold
ResetTimeout == 2       \* config.circuit_breaker_timeout, in clock ticks
MaxTime == 2            \* the clock stops here

(* Python's None for _tripped_at and remaining_time() *)
NoneT == -1

ProviderPool == <<"p1", "p2", "p3", "p4", "p5", "p6">>
Providers == SubSeq(ProviderPool, 1, NumProviders)
ProviderNames == {Providers[i] : i \in 1..NumProviders}
LastIndex == NumProviders

---------------------------------------------------------------------------
(* circuit_breaker.py: CircuitBreaker *)

\* __init__: _tripped_at = None, _failure_count = 0
CircuitBreaker == [failure_count |-> 0, tripped_at |-> NoneT]

\* a plausible slip: the window still counts as running at elapsed = timeout
is_open_gt(b, t) ==
    IF b.tripped_at = NoneT THEN FALSE
    ELSE IF t - b.tripped_at > ResetTimeout THEN FALSE
    ELSE TRUE

\* is_open(): the value returned at time t
is_open(b, t) ==
    IF b.tripped_at = NoneT THEN FALSE
    ELSE IF t - b.tripped_at >= ResetTimeout THEN FALSE
    ELSE TRUE

\* a plausible slip: the auto-close clears _tripped_at and keeps the count
is_open_effect_keeps_count(b, t) ==
    IF b.tripped_at = NoneT THEN b
    ELSE IF t - b.tripped_at >= ResetTimeout
         THEN [b EXCEPT !.tripped_at = NoneT]
         ELSE b

\* is_open(): the breaker after the call (auto-close when the timeout has elapsed)
is_open_effect(b, t) ==
    IF b.tripped_at = NoneT THEN b
    ELSE IF t - b.tripped_at >= ResetTimeout
         THEN [failure_count |-> 0, tripped_at |-> NoneT]
         ELSE b

\* the branch of is_open() that auto-closes is taken
auto_closes(b, t) == b.tripped_at # NoneT /\ t - b.tripped_at >= ResetTimeout

\* a plausible slip: the count reaches the threshold only when it exceeds it
record_failure_gt(b, t) ==
    LET c == b.failure_count + 1
    IN  [failure_count |-> c,
         tripped_at |-> IF c > FailureThreshold THEN t ELSE b.tripped_at]

\* a plausible slip: the count is written from a value read before another
\* request's increment, so an increment on a non-zero count is lost
record_failure_lost_update(b, t) ==
    LET c == IF b.failure_count = 0 THEN 1 ELSE b.failure_count
    IN  [failure_count |-> c,
         tripped_at |-> IF c >= FailureThreshold THEN t ELSE b.tripped_at]

\* a plausible slip: a failure on a breaker that is already tripped leaves the
\* window where it was
record_failure_once(b, t) ==
    LET c == b.failure_count + 1
    IN  [failure_count |-> c,
         tripped_at |-> IF c >= FailureThreshold /\ b.tripped_at = NoneT
                        THEN t ELSE b.tripped_at]

record_failure(b, t) ==
    LET c == b.failure_count + 1
    IN  [failure_count |-> c,
         tripped_at |-> IF c >= FailureThreshold THEN t ELSE b.tripped_at]

\* a plausible slip: a success also closes the breaker
record_success_closes(b) == [failure_count |-> 0, tripped_at |-> NoneT]

\* a plausible slip: a success leaves the count of failures as it was
record_success_keeps_count(b) == b

record_success(b) == [b EXCEPT !.failure_count = 0]

trip(b, t) == [b EXCEPT !.tripped_at = t]

\* a plausible slip: reset() clears _tripped_at and keeps the count
reset_keeps_count(b) == [b EXCEPT !.tripped_at = NoneT]

reset(b) == [failure_count |-> 0, tripped_at |-> NoneT]

Max(a, b) == IF a >= b THEN a ELSE b

\* a plausible slip: the difference is returned without max(0, ...)
remaining_time_unclamped(b, t) ==
    IF b.tripped_at = NoneT THEN NoneT
    ELSE ResetTimeout - (t - b.tripped_at)

remaining_time(b, t) ==
    IF b.tripped_at = NoneT THEN NoneT
    ELSE Max(0, ResetTimeout - (t - b.tripped_at))

---------------------------------------------------------------------------
(* circuit_breaker.py: CircuitBreakerManager *)

\* a plausible slip: every call builds a new breaker for the name
get_replaces(brs, name) ==
    (name :> CircuitBreaker) @@ [n \in DOMAIN brs \ {name} |-> brs[n]]

\* get(): the registry after the call (the breaker is created on first use)
get(brs, name) ==
    IF name \in DOMAIN brs THEN brs ELSE (name :> CircuitBreaker) @@ brs

reset_all(brs) == [n \in DOMAIN brs |-> reset(brs[n])]

\* a plausible slip: remaining_time() is read before is_open() has run
status_remaining_first(brs, t) ==
    [n \in DOMAIN brs |->
        [is_open |-> is_open(brs[n], t),
         failure_count |-> is_open_effect(brs[n], t).failure_count,
         remaining_time |-> remaining_time(brs[n], t)]]

\* status(): the snapshot returned
status(brs, t) ==
    [n \in DOMAIN brs |->
        [is_open |-> is_open(brs[n], t),
         failure_count |-> is_open_effect(brs[n], t).failure_count,
         remaining_time |-> remaining_time(is_open_effect(brs[n], t), t)]]

\* status(): the registry after the call (is_open() runs on every breaker)
status_effect(brs, t) == [n \in DOMAIN brs |-> is_open_effect(brs[n], t)]

---------------------------------------------------------------------------
(* History kept beside each breaker; the modelled code never reads it.     *)
(*   streak     record_failure() calls since the last record_success(),    *)
(*              reset(), auto-close or construction                        *)
(*   since      time of the last record_failure() of a streak that has     *)
(*              reached FailureThreshold, else None                        *)
(*   fails      record_failure() calls since the last reset(), auto-close  *)
(*              or construction, counted up to FailureThreshold            *)
(*   tripCalled trip() was called since the last reset(), auto-close or    *)
(*              construction                                               *)
(*   closedBy   what closed the breaker last: "new", "reset" or "auto"     *)
(*   fresh      only record_failure() and queries were called on it        *)

Min(a, b) == IF a <= b THEN a ELSE b

HistNew ==
    [streak |-> 0, since |-> NoneT, fails |-> 0, tripCalled |-> FALSE,
     closedBy |-> "new", fresh |-> TRUE]

\* after record_failure() at time t
HistFailure(h, t) ==
    [h EXCEPT !.streak = @ + 1,
              !.since = IF h.streak + 1 >= FailureThreshold THEN t ELSE NoneT,
              !.fails = Min(@ + 1, FailureThreshold)]

HistSuccess(h) == [h EXCEPT !.streak = 0, !.since = NoneT, !.fresh = FALSE]

HistTrip(h) == [h EXCEPT !.tripCalled = TRUE, !.fresh = FALSE]

HistReset(h) ==
    [streak |-> 0, since |-> NoneT, fails |-> 0, tripCalled |-> FALSE,
     closedBy |-> "reset", fresh |-> FALSE]

\* after is_open() on breaker b at time t
HistQuery(h, b, t) ==
    IF auto_closes(b, t)
    THEN [h EXCEPT !.streak = 0, !.since = NoneT, !.fails = 0, !.tripCalled = FALSE,
                   !.closedBy = "auto"]
    ELSE h

\* the requests' history keeps streak and since only
HistFailureE(h, t) ==
    [h EXCEPT !.streak = @ + 1,
              !.since = IF h.streak + 1 >= FailureThreshold THEN t ELSE NoneT]

HistSuccessE(h) == [h EXCEPT !.streak = 0, !.since = NoneT]

HistResetE(h) == [h EXCEPT !.streak = 0, !.since = NoneT]

HistQueryE(h, b, t) ==
    IF auto_closes(b, t) THEN [h EXCEPT !.streak = 0, !.since = NoneT] ELSE h

HistGet(hs, name) == IF name \in DOMAIN hs THEN hs ELSE (name :> HistNew) @@ hs

---------------------------------------------------------------------------
(* The breaker and its manager driven directly, one method call per step,  *)
(* as the unit tests of tests/unit/test_circuit_breaker.py drive them.     *)

UnitNames == {"p1"}
MaxCount == FailureThreshold + 1    \* record_failure() is not called beyond this count

\* lastCall: the method, the breaker, the time of the call, the breaker's fields
\* before it, and the value returned (open by is_open, remaining by remaining_time)
NoSnapshot == [is_open |-> FALSE, failure_count |-> 0, remaining_time |-> NoneT]

NoCall ==
    [op |-> "none", name |-> "", at |-> 0, open |-> FALSE, remaining |-> NoneT,
     before |-> CircuitBreaker, snapshot |-> NoSnapshot]

Called(op, n, open, remaining) ==
    [op |-> op, name |-> n, at |-> now, open |-> open, remaining |-> remaining,
     before |-> breakers[n], snapshot |-> NoSnapshot]

\* a request slot.  pc is "idle", "wait" (awaiting the upstream of provider cur),
\* "streaming" (a StreamingResponse was returned and its body is being piped),
\* "done" or "raised" (the handler was left by an exception); last_response and
\* last_error are the handler's locals (the provider that produced them, 0 for
\* None); response is what the client got; handles are the upstream objects the
\* streaming handler holds open ("client" the httpx.AsyncClient, "response" the
\* upstream response); exit is how generate() was left.
\* History, never read by the modelled code: first is the first provider the
\* request was forwarded to, lastHttp the last HTTP response any attempt returned,
\* openAtStart the providers at or after cur whose breaker was open when the
\* request started, delivered the providers whose status or body bytes were
\* handed to the client.
\* the requests of the model are served one at a time, in one slot
Slots == {1}

NoResponse == [from |-> 0, status |-> 0, kind |-> "none"]
NoHttp == [from |-> 0, status |-> 0]

IdleRequest ==
    [pc |-> "idle", stream |-> FALSE, cur |-> 0,
     last_response |-> NoHttp, last_error |-> 0, response |-> NoResponse,
     handles |-> {}, exit |-> "none",
     first |-> 0, lastHttp |-> NoHttp, openAtStart |-> {}, delivered |-> {},
     content |-> "", opened |-> {}]

NoHelper ==
    [op |-> "none", headers |-> <<>>, access_token |-> <<>>, provider_token |-> <<>>,
     result |-> <<>>]

\* the gateway after start-up: no breaker yet, no request in flight
InitState ==
    /\ breakers = [n \in {} |-> CircuitBreaker]
    /\ hist = [n \in {} |-> HistNew]
    /\ now = 0
    /\ reqs = [r \in Slots |-> IdleRequest]
    /\ callbacks = <<>>
    /\ lastCall = NoCall

InitCommon ==
    /\ InitState
    /\ helper = NoHelper

Tick ==
    /\ now < MaxTime
    /\ now' = now + 1
    /\ UNCHANGED <<breakers, reqs, callbacks, hist, lastCall, helper>>

CallGet(n) ==
    /\ n \notin DOMAIN breakers
    /\ breakers' = get(breakers, n)
    /\ hist' = HistGet(hist, n)
    /\ lastCall' = [NoCall EXCEPT !.op = "get", !.name = n]
    /\ UNCHANGED <<now, reqs, callbacks, helper>>

CallIsOpen(n) ==
    /\ n \in DOMAIN breakers
    /\ breakers' = [breakers EXCEPT ![n] = is_open_effect(@, now)]
    /\ hist' = [hist EXCEPT ![n] = HistQuery(@, breakers[n], now)]
    /\ lastCall' = Called("is_open", n, is_open(breakers[n], now), NoneT)
    /\ UNCHANGED <<now, reqs, callbacks, helper>>

CallRecordFailure(n) ==
    /\ n \in DOMAIN breakers
    /\ breakers[n].failure_count < MaxCount
    /\ breakers' = [breakers EXCEPT ![n] = record_failure(@, now)]
    /\ hist' = [hist EXCEPT ![n] = HistFailure(@, now)]
    /\ lastCall' = Called("record_failure", n, FALSE, NoneT)
    /\ UNCHANGED <<now, reqs, callbacks, helper>>

CallRecordSuccess(n) ==
    /\ n \in DOMAIN breakers
    /\ breakers' = [breakers EXCEPT ![n] = record_success(@)]
    /\ hist' = [hist EXCEPT ![n] = HistSuccess(@)]
    /\ lastCall' = Called("record_success", n, FALSE, NoneT)
    /\ UNCHANGED <<now, reqs, callbacks, helper>>

CallTrip(n) ==
    /\ n \in DOMAIN breakers
    /\ breakers' = [breakers EXCEPT ![n] = trip(@, now)]
    /\ hist' = [hist EXCEPT ![n] = HistTrip(@)]
    /\ lastCall' = Called("trip", n, FALSE, NoneT)
    /\ UNCHANGED <<now, reqs, callbacks, helper>>

CallReset(n) ==
    /\ n \in DOMAIN breakers
    /\ breakers' = [breakers EXCEPT ![n] = reset(@)]
    /\ hist' = [hist EXCEPT ![n] = HistReset(@)]
    /\ lastCall' = Called("reset", n, FALSE, NoneT)
    /\ UNCHANGED <<now, reqs, callbacks, helper>>

CallRemainingTime(n) ==
    /\ n \in DOMAIN breakers
    /\ lastCall' = Called("remaining_time", n, FALSE, remaining_time(breakers[n], now))
    /\ UNCHANGED <<breakers, now, reqs, callbacks, hist, helper>>

\* CircuitBreakerManager.status(): the snapshot is built entry by entry with
\* is_open(), failure_count and remaining_time() called in that order on each
\* breaker; lastCall keeps the entry of breaker n
CallStatus(n) ==
    /\ n \in DOMAIN breakers
    /\ breakers' = status_effect(breakers, now)
    /\ hist' = [m \in DOMAIN hist |-> HistQuery(hist[m], breakers[m], now)]
    /\ lastCall' = [Called("status", n, FALSE, NoneT)
                       EXCEPT !.snapshot = status(breakers, now)[n]]
    /\ UNCHANGED <<now, reqs, callbacks, helper>>

\* time.sleep() in a test: the clock goes one unit beyond the times at which
\* the other specifications stop it
Sleep ==
    /\ now = MaxTime
    /\ now' = now + 1
    /\ UNCHANGED <<breakers, reqs, callbacks, hist, lastCall, helper>>

NextBreaker ==
    \/ Tick
    \/ Sleep
    \/ \E n \in UnitNames : CallStatus(n)
    \/ \E n \in UnitNames : CallGet(n)
    \/ \E n \in UnitNames : CallIsOpen(n)
    \/ \E n \in UnitNames : CallRecordFailure(n)
    \/ \E n \in UnitNames : CallRecordSuccess(n)
    \/ \E n \in UnitNames : CallTrip(n)
    \/ \E n \in UnitNames : CallReset(n)
    \/ \E n \in UnitNames : CallRemainingTime(n)

SpecBreaker == InitCommon /\ [][NextBreaker]_vars

---------------------------------------------------------------------------
(* Properties of the breaker alone (SpecBreaker) *)

\* C1: after FailureThreshold consecutive record_failure() calls with no
\* record_success(), reset() or auto-close between them, is_open() returns true
\* as long as less than ResetTimeout has elapsed since the last of them; on a
\* fresh breaker fewer than FailureThreshold failures leave is_open() false.
C1_TripsAtThreshold ==
    \A n \in DOMAIN breakers :
        /\ (hist[n].streak >= FailureThreshold /\ now - hist[n].since < ResetTimeout)
              => is_open(breakers[n], now)
        /\ (hist[n].fresh /\ hist[n].fails < FailureThreshold)
              => ~is_open(breakers[n], now)

\* C1 witness: is_open() was called after exactly FailureThreshold failures on a
\* fresh breaker and returned true
C1_Witness ==
    /\ lastCall.op = "is_open"
    /\ lastCall.open
    /\ hist[lastCall.name].fresh
    /\ hist[lastCall.name].streak = FailureThreshold

\* C2: record_success() sets failure_count to 0 and leaves tripped_at as it
\* was: an open breaker is still open after it, a closed one still closed.
C2_SuccessKeepsTrippedAt ==
    lastCall.op = "record_success" =>
        LET b == breakers[lastCall.name]
        IN  /\ b.failure_count = 0
            /\ b.tripped_at = lastCall.before.tripped_at
            /\ is_open(b, lastCall.at) = is_open(lastCall.before, lastCall.at)

\* C2 witness: record_success() was called on an open breaker with a positive
\* count, and the breaker is still open
C2_Witness ==
    /\ lastCall.op = "record_success"
    /\ lastCall.before.failure_count > 0
    /\ is_open(lastCall.before, lastCall.at)
    /\ is_open(breakers[lastCall.name], lastCall.at)

\* C3: is_open() called on a tripped breaker when now - tripped_at >=
\* ResetTimeout returns false and leaves tripped_at unset and failure_count 0;
\* after such an auto-close the breaker is closed until FailureThreshold new
\* failures (or a trip()) have happened.
C3_AutoCloseClearsBoth ==
    /\ (/\ lastCall.op = "is_open"
        /\ lastCall.before.tripped_at # NoneT
        /\ lastCall.at - lastCall.before.tripped_at >= ResetTimeout)
          => /\ lastCall.open = FALSE
             /\ breakers[lastCall.name] = [failure_count |-> 0, tripped_at |-> NoneT]
    /\ \A n \in DOMAIN breakers :
          (/\ hist[n].closedBy = "auto"
           /\ ~hist[n].tripCalled
           /\ hist[n].fails < FailureThreshold)
             => /\ breakers[n].tripped_at = NoneT
                /\ breakers[n].failure_count < FailureThreshold
                /\ breakers[n].failure_count = hist[n].streak

\* C3 witness: is_open() was called on a breaker tripped by failures, after the
\* timeout, and returned false
C3_Witness ==
    /\ lastCall.op = "is_open"
    /\ lastCall.before.tripped_at # NoneT
    /\ lastCall.before.failure_count >= FailureThreshold
    /\ lastCall.at - lastCall.before.tripped_at >= ResetTimeout
    /\ ~lastCall.open

\* C4: every auto-close (is_open() called on a tripped breaker after the
\* timeout) calls the auto-reset callback exactly once with the provider name,
\* and no other step calls it.
C4_CallbackOncePerAutoClose ==
    [][\A n \in UnitNames :
          IF CallIsOpen(n) /\ auto_closes(breakers[n], now)
          THEN callbacks' = Append(callbacks, n)
          ELSE (~\E m \in UnitNames : CallIsOpen(m) /\ auto_closes(breakers[m], now))
                  => callbacks' = callbacks]_vars

\* C27: is_open() returns true exactly when tripped_at is set and the time of
\* the query is less than reset_timeout after it: true strictly inside the
\* window, false at elapsed = reset_timeout and later, false when tripped_at is
\* unset.
C27_OpenIffInsideWindow ==
    lastCall.op = "is_open" =>
        /\ lastCall.open <=> /\ lastCall.before.tripped_at # NoneT
                             /\ lastCall.at - lastCall.before.tripped_at < ResetTimeout
        /\ lastCall.open => breakers[lastCall.name] = lastCall.before
        /\ ~lastCall.open => breakers[lastCall.name].tripped_at = NoneT

\* C27 witness: is_open() was called exactly reset_timeout after the breaker was
\* tripped by failures, and returned false
C27_Witness ==
    /\ lastCall.op = "is_open"
    /\ lastCall.before.failure_count >= FailureThreshold
    /\ lastCall.before.tripped_at # NoneT
    /\ lastCall.at - lastCall.before.tripped_at = ResetTimeout
    /\ ~lastCall.open

\* C28: a record_failure() that leaves failure_count >= failure_threshold sets
\* tripped_at to the time of the call, on a breaker that is already open too:
\* the full window restarts, and is_open() stays true for reset_timeout after
\* the last such failure.
C28_FailureRestartsWindow ==
    /\ [](lastCall.op = "record_failure"
            /\ breakers[lastCall.name].failure_count >= FailureThreshold
              => /\ breakers[lastCall.name].tripped_at = lastCall.at
                 /\ remaining_time(breakers[lastCall.name], lastCall.at) = ResetTimeout)
    /\ [][\A n \in UnitNames :
            (/\ CallIsOpen(n)
             /\ hist[n].since # NoneT
             /\ now - hist[n].since < ResetTimeout)
               => lastCall'.open /\ breakers'[n] = breakers[n]]_vars

\* C28 witness: a failure was recorded on a breaker that was open since an
\* earlier time, and moved tripped_at to the time of the call
C28_Witness ==
    /\ lastCall.op = "record_failure"
    /\ lastCall.before.failure_count >= FailureThreshold
    /\ lastCall.before.tripped_at # NoneT
    /\ lastCall.before.tripped_at < lastCall.at
    /\ lastCall.at - lastCall.before.tripped_at < ResetTimeout
    /\ breakers[lastCall.name].tripped_at = lastCall.at

\* C34: status() is a read-only projection: the call changes no breaker's
\* failure_count or tripped_at and creates no breaker, in every state, a tripped
\* breaker whose timeout has elapsed included.
C34_StatusReadOnly ==
    [][\A n \in UnitNames : CallStatus(n) => breakers' = breakers]_vars

\* C36: remaining_time() returns None exactly when tripped_at is unset, and
\* otherwise max(0, reset_timeout - (now - tripped_at)): never negative,
\* reset_timeout at the moment of the trip, not larger at a later call when no
\* call came between, and the breaker is left as it was.
C36_RemainingTime ==
    /\ [](lastCall.op = "remaining_time" =>
            LET b == lastCall.before
                elapsed == lastCall.at - b.tripped_at
            IN  /\ lastCall.remaining = NoneT <=> b.tripped_at = NoneT
                /\ b.tripped_at # NoneT =>
                      /\ lastCall.remaining >= 0
                      /\ lastCall.remaining =
                            IF elapsed >= ResetTimeout THEN 0 ELSE ResetTimeout - elapsed
                      /\ elapsed = 0 => lastCall.remaining = ResetTimeout
                /\ breakers[lastCall.name] = b)
    /\ [][\A n \in UnitNames :
            (/\ CallRemainingTime(n)
             /\ lastCall.op = "remaining_time"
             /\ lastCall.name = n
             /\ breakers[n].tripped_at # NoneT)
               => lastCall'.remaining <= lastCall.remaining]_vars

\* C36 witness: remaining_time() was called on a tripped breaker later than
\* reset_timeout after the trip, and returned 0
C36_Witness ==
    /\ lastCall.op = "remaining_time"
    /\ lastCall.before.tripped_at # NoneT
    /\ lastCall.at - lastCall.before.tripped_at > ResetTimeout
    /\ lastCall.remaining = 0

\* C38: a breaker whose tripped_at is unset has failure_count below the
\* threshold, whatever calls of record_failure, record_success, trip, reset and
\* is_open were made on it.
C38_ClosedBelowThreshold ==
    \A n \in DOMAIN breakers :
        breakers[n].tripped_at = NoneT => breakers[n].failure_count < FailureThreshold

\* C38 witness: a tripped breaker was closed by the expiry of its window, and
\* has since counted failures up to one short of the threshold
C38_Witness ==
    \E n \in DOMAIN breakers :
        /\ hist[n].closedBy = "auto"
        /\ breakers[n].tripped_at = NoneT
        /\ breakers[n].failure_count = FailureThreshold - 1
        /\ lastCall.op = "record_failure"

\* C40: an entry of a status() snapshot agrees with itself about the window:
\* is_open true comes with a number as remaining_time, is_open false with None;
\* the entry of a breaker that this status() call auto-closed reports is_open
\* false, failure_count 0 and remaining_time None.
C40_StatusEntryConsistent ==
    lastCall.op = "status" =>
        LET entry == lastCall.snapshot
            b == lastCall.before
        IN  /\ entry.is_open => entry.remaining_time # NoneT /\ entry.remaining_time >= 0
            /\ ~entry.is_open => entry.remaining_time = NoneT
            /\ (b.tripped_at # NoneT /\ lastCall.at - b.tripped_at >= ResetTimeout)
                  => entry = [is_open |-> FALSE, failure_count |-> 0,
                              remaining_time |-> NoneT]
            /\ entry.failure_count = breakers[lastCall.name].failure_count

\* C40 witness: status() was called when the window of a breaker that failures
\* had tripped was over, and auto-closed it
C40_Witness ==
    /\ lastCall.op = "status"
    /\ lastCall.before.failure_count >= FailureThreshold
    /\ lastCall.before.tripped_at # NoneT
    /\ lastCall.at - lastCall.before.tripped_at >= ResetTimeout
    /\ ~lastCall.snapshot.is_open
    /\ breakers[lastCall.name].tripped_at = NoneT

---------------------------------------------------------------------------
(* proxy.py: helpers *)

\* header values and tokens are strings, modelled as sequences of characters
Contains(value, token) ==
    \E i \in 1..(Len(value) - Len(token) + 1) :
        SubSeq(value, i, i + Len(token) - 1) = token

AccessToken == <<"t", "k">>    \* config.access_token

\* a plausible slip: the test for an unset access token is inverted
verify_access_token_inverted(headers, access_token) ==
    IF access_token # <<>> THEN TRUE
    ELSE \E k \in DOMAIN headers : Contains(headers[k], access_token)

\* a plausible slip: the scan runs over the names as well as the values
verify_access_token_items(headers, access_token) ==
    IF access_token = <<>> THEN TRUE
    ELSE \E k \in DOMAIN headers :
            Contains(headers[k], access_token) \/ Contains(k, access_token)

\* a header map is a function from names to values, both strings
verify_access_token(headers, access_token) ==
    IF access_token = <<>> THEN TRUE
    ELSE \E k \in DOMAIN headers : Contains(headers[k], access_token)

\* the headers of the modelled clients: one carries the access token, one does not
SampleHeaders ==
    { <<"a", "u", "t", "h", "o", "r", "i", "z", "a", "t", "i", "o", "n">> :> <<"B", " ", "t", "k">>,
      <<"a", "u", "t", "h", "o", "r", "i", "z", "a", "t", "i", "o", "n">> :> <<"B", " ", "x">> }

\* str.lower() on ASCII
UpperCase == <<"A", "B", "C", "D", "E", "F", "G", "H", "I", "J", "K", "L", "M", "N", "O", "P", "Q", "R", "S", "T", "U", "V", "W", "X", "Y", "Z">>
LowerCase == <<"a", "b", "c", "d", "e", "f", "g", "h", "i", "j", "k", "l", "m", "n", "o", "p", "q", "r", "s", "t", "u", "v", "w", "x", "y", "z">>
lower_char(c) ==
    IF \E i \in 1..Len(UpperCase) : UpperCase[i] = c
    THEN LowerCase[CHOOSE i \in 1..Len(UpperCase) : UpperCase[i] = c]
    ELSE c
str_lower(str) == [i \in 1..Len(str) |-> lower_char(str[i])]

\* str.find(old): the index of the leftmost occurrence of old in value, 0 if none
str_find(value, old) ==
    IF Contains(value, old)
    THEN CHOOSE i \in 1..(Len(value) - Len(old) + 1) :
            /\ SubSeq(value, i, i + Len(old) - 1) = old
            /\ \A j \in 1..(i - 1) : SubSeq(value, j, j + Len(old) - 1) # old
    ELSE 0

\* a plausible slip: `value.replace(old, new, 1)` replaces the first occurrence only
str_replace_first(value, old, new) ==
    IF old = <<>> THEN new \o value
    ELSE IF str_find(value, old) = 0 THEN value
    ELSE SubSeq(value, 1, str_find(value, old) - 1) \o new
            \o SubSeq(value, str_find(value, old) + Len(old), Len(value))

\* str.replace(old, new): every occurrence of old, found from the left and not
\* overlapping, becomes new; an empty old matches before every character and at
\* the end ("abc".replace("", "X") is "XaXbXcX")
RECURSIVE str_replace(_, _, _)
str_replace(value, old, new) ==
    IF old = <<>>
    THEN IF value = <<>> THEN new
         ELSE new \o <<Head(value)>> \o str_replace(Tail(value), old, new)
    ELSE IF str_find(value, old) = 0 THEN value
    ELSE SubSeq(value, 1, str_find(value, old) - 1) \o new
            \o str_replace(SubSeq(value, str_find(value, old) + Len(old), Len(value)),
                           old, new)

\* `old in value`: the empty string is in every string
str_in(old, value) == old = <<>> \/ Contains(value, old)

HOP_BY_HOP_HEADERS ==
    { <<"c", "o", "n", "n", "e", "c", "t", "i", "o", "n">>,
      <<"k", "e", "e", "p", "-", "a", "l", "i", "v", "e">>,
      <<"p", "r", "o", "x", "y", "-", "a", "u", "t", "h", "e", "n", "t", "i", "c", "a", "t", "e">>,
      <<"p", "r", "o", "x", "y", "-", "a", "u", "t", "h", "o", "r", "i", "z", "a", "t", "i", "o", "n">>,
      <<"t", "e">>,
      <<"t", "r", "a", "i", "l", "e", "r", "s">>,
      <<"t", "r", "a", "n", "s", "f", "e", "r", "-", "e", "n", "c", "o", "d", "i", "n", "g">>,
      <<"u", "p", "g", "r", "a", "d", "e">>,
      <<"h", "o", "s", "t">> }

\* a plausible slip: the name is looked up as the client spelled it
filter_headers_cased(headers) ==
    [k \in {n \in DOMAIN headers : n \notin HOP_BY_HOP_HEADERS} |-> headers[k]]

filter_headers(headers) ==
    [k \in {n \in DOMAIN headers : str_lower(n) \notin HOP_BY_HOP_HEADERS} |-> headers[k]]

replace_token_in_headers(headers, access_token, provider_token) ==
    [k \in DOMAIN headers |->
        IF str_in(access_token, headers[k])
        THEN str_replace(headers[k], access_token, provider_token)
        ELSE headers[k]]

\* prepare_headers(request, provider, access_token), headers = dict(request.headers)
prepare_headers(headers, provider_token, access_token) ==
    replace_token_in_headers(filter_headers(headers), access_token, provider_token)

\* request bodies.  A body is bytes that are not valid UTF-8 ("non_utf8"), text
\* that is not JSON ("invalid", the empty body included), or the text of a JSON
\* value; a JSON value is modelled by what json.loads returns for it, a Python
\* object with its type and, for a dict, its items (each a type and a printed
\* value)
PyDict(items) == [type |-> "dict", items |-> items]
PyOther(type) == [type |-> type, items |-> <<>>]
PyTrue == [type |-> "bool", v |-> "True"]
PyFalse == [type |-> "bool", v |-> "False"]

Bodies ==
    { [kind |-> "json", value |-> PyDict([stream |-> PyTrue, model |-> [type |-> "str", v |-> "m"]])],
      [kind |-> "json", value |-> PyDict([stream |-> PyFalse])],
      [kind |-> "json", value |-> PyDict([stream |-> [type |-> "int", v |-> "1"]])],
      [kind |-> "json", value |-> PyDict([stream |-> [type |-> "str", v |-> "true"]])],
      [kind |-> "json", value |-> PyDict([model |-> [type |-> "str", v |-> "m"]])],
      [kind |-> "json", value |-> PyOther("list")],
      [kind |-> "json", value |-> PyOther("NoneType")],
      [kind |-> "json", value |-> PyOther("int")],
      [kind |-> "invalid", value |-> PyOther("NoneType")],
      [kind |-> "non_utf8", value |-> PyOther("NoneType")] }

\* the bodies of the modelled clients: a streaming request, a buffered one, text
\* that is no JSON and bytes that are no UTF-8
SampleBodies ==
    {b \in Bodies :
        \/ b.kind # "json"
        \/ /\ b.value.type = "dict"
           /\ "stream" \in DOMAIN b.value.items => b.value.items.stream = PyTrue}

\* json.loads(body): the value, or the exception it raises.  Bytes are decoded
\* first, so bytes that are not UTF-8 raise UnicodeDecodeError, which is a
\* ValueError but no json.JSONDecodeError
json_loads(body) ==
    CASE body.kind = "non_utf8" -> [raises |-> "UnicodeDecodeError", value |-> body.value]
      [] body.kind = "invalid"  -> [raises |-> "JSONDecodeError", value |-> body.value]
      [] OTHER                  -> [raises |-> "none", value |-> body.value]

\* data.get(key, default) on what json.loads returned: only a dict has .get
py_get(data, key, default) ==
    IF data.type # "dict" THEN [raises |-> "AttributeError", value |-> default]
    ELSE [raises |-> "none",
          value |-> IF key \in DOMAIN data.items THEN data.items[key] ELSE default]

\* the exceptions `except (json.JSONDecodeError, AttributeError)` catches
Caught == {"JSONDecodeError", "AttributeError"}

\* a plausible slip: `except Exception` around the parse
is_stream_request_catch_all(body) ==
    LET loaded == json_loads(body)
        got == py_get(loaded.value, "stream", PyFalse)
    IN  IF loaded.raises # "none" \/ got.raises # "none"
        THEN [raises |-> "none", value |-> FALSE]
        ELSE [raises |-> "none", value |-> got.value = PyTrue]

\* is_stream_request(body): `data.get("stream", False) is True`, False when a
\* caught exception was raised; an exception that is not caught leaves the function
is_stream_request(body) ==
    LET loaded == json_loads(body)
        got == py_get(loaded.value, "stream", PyFalse)
    IN  IF loaded.raises # "none"
        THEN IF loaded.raises \in Caught
             THEN [raises |-> "none", value |-> FALSE]
             ELSE [raises |-> loaded.raises, value |-> FALSE]
        ELSE IF got.raises # "none"
        THEN IF got.raises \in Caught
             THEN [raises |-> "none", value |-> FALSE]
             ELSE [raises |-> got.raises, value |-> FALSE]
        ELSE [raises |-> "none", value |-> got.value = PyTrue]

PyNone == [type |-> "NoneType", v |-> "None"]

\* extract_model(body): `data.get("model")`, None when a caught exception was
\* raised; an exception that is not caught leaves the function
extract_model(body) ==
    LET loaded == json_loads(body)
        got == py_get(loaded.value, "model", PyNone)
    IN  IF loaded.raises # "none"
        THEN IF loaded.raises \in Caught
             THEN [raises |-> "none", value |-> PyNone]
             ELSE [raises |-> loaded.raises, value |-> PyNone]
        ELSE IF got.raises # "none"
        THEN IF got.raises \in Caught
             THEN [raises |-> "none", value |-> PyNone]
             ELSE [raises |-> got.raises, value |-> PyNone]
        ELSE [raises |-> "none", value |-> got.value]

RequestError == 0              \* httpx.RequestError raised instead of a response
Statuses == {200, 404, 500}
Outcomes == Statuses \cup {RequestError}

\* a plausible slip: client errors count as failures too
is_failure_response_4xx(status_code) == status_code >= 400

is_failure_response(status_code) == status_code >= 500

---------------------------------------------------------------------------
(* proxy.py: the provider loop shared by both handlers *)

\* `for provider in config.providers: breaker = breaker_manager.get(...);
\*  if breaker.is_open(): continue`, entered at index i at time t: the registry
\* after the is_open() calls and the index of the provider to forward to
\* (NumProviders + 1 when the loop runs out)
RECURSIVE next_provider(_, _, _)
next_provider(brs, i, t) ==
    IF i > NumProviders THEN [breakers |-> brs, idx |-> NumProviders + 1]
    ELSE LET name == Providers[i]
             b1 == get(brs, name)
         IN  IF is_open(b1[name], t)
             THEN next_provider(b1, i + 1, t)
             ELSE [breakers |-> [b1 EXCEPT ![name] = is_open_effect(@, t)], idx |-> i]

\* history after next_provider(brs, i, t) stopped at index j
HistScan(hs, brs, i, j, t) ==
    LET visited == {Providers[k] : k \in i..Min(j, NumProviders)}
    IN  [n \in DOMAIN hs \cup visited |->
            IF n \in visited
            THEN IF n \in DOMAIN brs THEN HistQueryE(hs[n], brs[n], t) ELSE HistNew
            ELSE hs[n]]

\* a plausible slip: a transport error after a 5xx response hides that response
final_response_error_first(last_response, last_error) ==
    IF last_response.from # 0 /\ last_error < last_response.from
    THEN [from |-> last_response.from, status |-> last_response.status, kind |-> "upstream"]
    ELSE [from |-> 0, status |-> 502, kind |-> "synthetic"]

\* _handle_normal_request after the loop: the last 5xx response, else a 502
final_response(last_response, last_error) ==
    IF last_response.from # 0
    THEN [from |-> last_response.from, status |-> last_response.status, kind |-> "upstream"]
    ELSE [from |-> 0, status |-> 502, kind |-> "synthetic"]

\* str(e) of the httpx.RequestError an attempt raised (the text httpx gives a
\* refused connection)
ErrorText == "All connection attempts failed"

\* the body of the 401 answer, byte for byte
unauthorized_content ==
    "{\"error\": \"Unauthorized\", \"detail\": \"Invalid access token\"}"

\* the body of a 502 answer with the given detail, byte for byte (the f-string
\* of the buffered handler; the streaming handler's literal has the same shape)
bad_gateway_content(error_detail) ==
    "{\"error\": \"Bad Gateway\", \"detail\": \"" \o error_detail \o "\"}"

\* the bytes of the body the client receives with answer resp: a synthetic
\* answer's literal, or the upstream's own body (left abstract)
response_content(req, resp) ==
    IF resp.kind # "synthetic" THEN "upstream body"
    ELSE IF resp.status = 401 THEN unauthorized_content
    ELSE IF ~req.stream /\ req.last_error # 0
         THEN bad_gateway_content(ErrorText)
         ELSE bad_gateway_content("All providers unavailable")

\* the request with resp handed to the client
Deliver(req, resp) ==
    [req EXCEPT !.response = resp,
                !.delivered = IF resp.from # 0 THEN @ \cup {resp.from} ELSE @,
                !.content = response_content(req, resp)]

\* a plausible slip: the streaming handler too answers with the last 5xx
\* response it got
Continue_returns_last(req, sc) ==
    IF sc.idx <= NumProviders
    THEN [req EXCEPT !.pc = "wait", !.cur = sc.idx,
                     !.handles = IF req.stream THEN {"client"} ELSE {},
                     !.first = IF @ = 0 THEN sc.idx ELSE @,
                     !.openAtStart = {j \in @ : j >= sc.idx}]
    ELSE Deliver([req EXCEPT !.pc = "done", !.openAtStart = {}, !.handles = {}],
                 final_response(IF req.stream THEN req.lastHttp ELSE req.last_response,
                                req.last_error))

\* the request after the loop was continued from breakers brs: forwarded to the
\* next provider (the streaming handler opens a new httpx.AsyncClient for the
\* attempt), or answered
Continue(req, sc) ==
    IF sc.idx <= NumProviders
    THEN [req EXCEPT !.pc = "wait", !.cur = sc.idx,
                     !.handles = IF req.stream THEN {"client"} ELSE {},
                     !.first = IF @ = 0 THEN sc.idx ELSE @,
                     !.openAtStart = {j \in @ : j >= sc.idx}]
    ELSE Deliver([req EXCEPT !.pc = "done", !.openAtStart = {}, !.handles = {}],
                 IF req.stream
                 THEN [from |-> 0, status |-> 502, kind |-> "synthetic"]
                 ELSE final_response(req.last_response, req.last_error))

---------------------------------------------------------------------------
(* proxy.py: the request handlers, one action per stretch between two awaits *)

\* the providers whose breaker is open at this moment
OpenNow == {i \in 1..NumProviders :
               Providers[i] \in DOMAIN breakers /\ is_open(breakers[Providers[i]], now)}

\* proxy_request: the access-token check, the parse of the body, then the
\* handler's loop up to the first upstream call (or to its end when every
\* provider is skipped)
StartRequest(r, headers, body) ==
    /\ reqs[r].pc = "idle"
    /\ IF ~verify_access_token(headers, AccessToken)
       THEN /\ reqs' = [reqs EXCEPT ![r] =
                          Deliver([@ EXCEPT !.pc = "done"],
                                  [from |-> 0, status |-> 401, kind |-> "synthetic"])]
            /\ UNCHANGED <<breakers, hist>>
       ELSE IF is_stream_request(body).raises # "none"
       THEN /\ reqs' = [reqs EXCEPT ![r].pc = "raised"]
            /\ UNCHANGED <<breakers, hist>>
       ELSE LET sc == next_provider(breakers, 1, now)
                req == [reqs[r] EXCEPT !.stream = is_stream_request(body).value,
                                       !.openAtStart = OpenNow]
            IN  /\ breakers' = sc.breakers
                /\ hist' = HistScan(hist, breakers, 1, sc.idx, now)
                /\ reqs' = [reqs EXCEPT ![r] = Continue(req, sc)]
    /\ UNCHANGED <<now, callbacks, lastCall, helper>>

\* `if breaker.is_open(): logger.circuit_breaker_event(..., event="opened", ...)`
\* on the breaker b that record_failure() left: the event is logged
emits_opened(b, t) == is_open(b, t)

\* the registry and the history after `breaker.record_failure()` and the
\* `if breaker.is_open()` that follows it, on provider i
AfterFailure(i) ==
    LET name == Providers[i]
        b1 == record_failure(breakers[name], now)
    IN  [breakers |-> [breakers EXCEPT ![name] = is_open_effect(b1, now)],
         hist |-> [hist EXCEPT ![name] = HistQueryE(HistFailureE(@, now), b1, now)],
         opened |-> emits_opened(b1, now)]

\* a plausible slip: the failed provider is tried again while its breaker is
\* not open
FailOver_retry(r, req, i) ==
    LET af == AfterFailure(i)
        sc == next_provider(af.breakers, i, now)
    IN  /\ breakers' = sc.breakers
        /\ hist' = HistScan(af.hist, af.breakers, i, sc.idx, now)
        /\ reqs' = [reqs EXCEPT ![r] =
                      Continue([req EXCEPT !.opened = IF af.opened THEN @ \cup {i} ELSE @],
                               sc)]

\* both handlers after a failed attempt on provider i: the loop goes on
FailOver(r, req, i) ==
    LET af == AfterFailure(i)
        sc == next_provider(af.breakers, i + 1, now)
    IN  /\ breakers' = sc.breakers
        /\ hist' = HistScan(af.hist, af.breakers, i + 1, sc.idx, now)
        /\ reqs' = [reqs EXCEPT ![r] =
                      Continue([req EXCEPT !.opened = IF af.opened THEN @ \cup {i} ELSE @],
                               sc)]

\* _handle_normal_request: `await client.request(...)` returns a response with
\* status o, or raises httpx.RequestError (o = RequestError)
NormalResponds(r, o) ==
    /\ reqs[r].pc = "wait"
    /\ ~reqs[r].stream
    /\ LET i == reqs[r].cur
           name == Providers[i]
           req == [reqs[r] EXCEPT !.lastHttp =
                                     IF o # RequestError
                                     THEN [from |-> i, status |-> o] ELSE @]
       IN  IF o # RequestError /\ ~is_failure_response(o)
           THEN /\ breakers' = [breakers EXCEPT ![name] = record_success(@)]
                /\ hist' = [hist EXCEPT ![name] = HistSuccessE(@)]
                /\ reqs' = [reqs EXCEPT ![r] =
                              Deliver([req EXCEPT !.pc = "done", !.openAtStart = {}],
                                      [from |-> i, status |-> o, kind |-> "upstream"])]
           ELSE IF o # RequestError
           THEN FailOver(r, [req EXCEPT !.last_response = [from |-> i, status |-> o]], i)
           ELSE FailOver(r, [req EXCEPT !.last_error = i], i)
    /\ UNCHANGED <<now, callbacks, lastCall, helper>>

\* _handle_streaming_request: `await client.send(..., stream=True)` returns the
\* response headers with status o, or raises httpx.RequestError
StreamingResponds(r, o) ==
    /\ reqs[r].pc = "wait"
    /\ reqs[r].stream
    /\ LET i == reqs[r].cur
           name == Providers[i]
           req == [reqs[r] EXCEPT !.lastHttp =
                                     IF o # RequestError
                                     THEN [from |-> i, status |-> o] ELSE @]
       IN  IF o # RequestError /\ ~is_failure_response(o)
           THEN /\ breakers' = [breakers EXCEPT ![name] = record_success(@)]
                /\ hist' = [hist EXCEPT ![name] = HistSuccessE(@)]
                /\ reqs' = [reqs EXCEPT ![r] =
                              Deliver([req EXCEPT !.pc = "streaming", !.openAtStart = {},
                                                  !.handles = {"client", "response"}],
                                      [from |-> i, status |-> o, kind |-> "stream"])]
           ELSE FailOver(r, req, i)
    /\ UNCHANGED <<now, callbacks, lastCall, helper>>

\* the upstream call of an attempt raises an exception that is no
\* httpx.RequestError (httpx.InvalidURL for a path with a control character, for
\* one): no `except` clause of the handlers catches it.  The buffered handler's
\* `async with` closes its client; the streaming handler has no `finally`, so its
\* client stays open
AttemptRaises(r) ==
    /\ reqs[r].pc = "wait"
    /\ reqs' = [reqs EXCEPT ![r].pc = "raised"]
    /\ UNCHANGED <<breakers, now, callbacks, hist, lastCall, helper>>

\* how generate() can be left once it runs: the upstream body ended, reading it
\* raised, or the client went away and the generator was closed
Exits == {"eof", "upstream_error", "client_gone"}

\* a plausible slip: a failure in the middle of the body counts against the
\* provider
generate_exit_records_failure(req, brs, how, t) ==
    [req |-> [req EXCEPT !.pc = "done", !.exit = how, !.handles = {}],
     breakers |-> IF how = "upstream_error"
                  THEN [brs EXCEPT ![Providers[req.cur]] = record_failure(@, t)]
                  ELSE brs]

\* a plausible slip: a failure in the middle of the body fails over to the next
\* provider
generate_exit_fails_over(req, brs, how, t) ==
    IF how = "upstream_error" /\ req.cur < NumProviders
                              /\ Providers[req.cur + 1] \in DOMAIN brs
    THEN [req |-> [req EXCEPT !.pc = "wait", !.cur = req.cur + 1, !.handles = {"client"}],
          breakers |-> brs]
    ELSE [req |-> [req EXCEPT !.pc = "done", !.exit = how, !.handles = {}],
          breakers |-> brs]

\* generate(): `try: async for chunk in response.aiter_bytes(): yield chunk
\* finally: await response.aclose(); await client.aclose()`.  However the loop is
\* left, the finally clause closes both handles and nothing else happens
generate_exit(req, brs, how, t) ==
    [req |-> [req EXCEPT !.pc = "done", !.exit = how, !.handles = {}],
     breakers |-> brs]

\* generate() ran and was left: the body of the committed upstream response was
\* piped to its end, or up to the failure
StreamEnds(r, how) ==
    /\ reqs[r].pc = "streaming"
    /\ LET ge == generate_exit(reqs[r], breakers, how, now)
       IN  /\ reqs' = [reqs EXCEPT ![r] = ge.req]
           /\ breakers' = ge.breakers
    /\ UNCHANGED <<now, callbacks, hist, lastCall, helper>>

\* the StreamingResponse was returned but its generator is never started (the
\* client went away before the body was asked for): the code of generate(), its
\* finally clause included, does not run
StreamAbandoned(r) ==
    /\ reqs[r].pc = "streaming"
    /\ reqs' = [reqs EXCEPT ![r] = [@ EXCEPT !.pc = "done", !.exit = "not_started"]]
    /\ UNCHANGED <<breakers, now, callbacks, hist, lastCall, helper>>

\* the request is over; the slot serves the next request
Recycle(r) ==
    /\ reqs[r].pc \in {"done", "raised"}
    /\ reqs' = [reqs EXCEPT ![r] = IdleRequest]
    /\ UNCHANGED <<breakers, now, callbacks, hist, lastCall, helper>>

\* main.py: the coroutine health() runs: breaker_manager.status()
Health ==
    /\ breakers' = status_effect(breakers, now)
    /\ hist' = [n \in DOMAIN hist |-> HistQueryE(hist[n], breakers[n], now)]
    /\ UNCHANGED <<now, reqs, callbacks, lastCall, helper>>

\* main.py: the coroutine reset_circuit() runs: breaker_manager.reset_all()
ResetCircuit ==
    /\ breakers' = reset_all(breakers)
    /\ hist' = [n \in DOMAIN hist |-> HistResetE(hist[n])]
    /\ UNCHANGED <<now, reqs, callbacks, lastCall, helper>>

\* main.py: the routes of the application in the order the decorators register
\* them; "/{path:path}" is the catch-all pattern of the gateway route
Routes ==
    <<[path |-> "/{path:path}",
       methods |-> {"GET", "POST", "PUT", "DELETE", "PATCH", "HEAD", "OPTIONS"},
       endpoint |-> "gateway"],
      [path |-> "/_health", methods |-> {"GET"}, endpoint |-> "health"],
      [path |-> "/_reset_circuit", methods |-> {"POST"}, endpoint |-> "reset_circuit"]>>

\* a route's pattern against a request path (every path begins with "/", and
\* the path convertor matches what follows, "/" included)
path_matches(pattern, path) == pattern = "/{path:path}" \/ pattern = path

\* the router: the first route, in order, whose pattern and methods both match
\* serves the request; 405 when only patterns match, 404 when none does
dispatch(method, path) ==
    LET full == {i \in 1..Len(Routes) : /\ path_matches(Routes[i].path, path)
                                         /\ method \in Routes[i].methods}
        partial == {i \in 1..Len(Routes) : path_matches(Routes[i].path, path)}
    IN  IF full # {}
        THEN Routes[CHOOSE i \in full : \A j \in full : i <= j].endpoint
        ELSE IF partial # {} THEN "405" ELSE "404"

GetHealth == [method |-> "GET", path |-> "/_health"]
PostResetCircuit == [method |-> "POST", path |-> "/_reset_circuit"]
RequestLines ==
    {GetHealth, PostResetCircuit,
     [method |-> "POST", path |-> "/v1/messages"],
     [method |-> "TRACE", path |-> "/v1/messages"]}

\* a client request with the given request line, headers and body arrives: the
\* router hands it to the endpoint of the route that serves it (gateway calls
\* proxy_request); a request no route serves is answered by the framework.
\* Every request line whose method the gateway route lists is dispatched to
\* gateway, so the client requests of Next are the StartRequest steps
ClientRequest(r, line, headers, body) ==
    LET endpoint == dispatch(line.method, line.path)
    IN  CASE endpoint = "gateway" -> StartRequest(r, headers, body)
          [] endpoint = "health" -> Health
          [] endpoint = "reset_circuit" -> ResetCircuit
          [] OTHER -> UNCHANGED vars

Next ==
    \/ Tick
    \/ \E r \in Slots, h \in SampleHeaders, b \in SampleBodies : StartRequest(r, h, b)
    \/ \E r \in Slots, o \in Outcomes : NormalResponds(r, o)
    \/ \E r \in Slots, o \in Outcomes : StreamingResponds(r, o)
    \/ \E r \in Slots : AttemptRaises(r)
    \/ \E r \in Slots, how \in Exits : StreamEnds(r, how)
    \/ \E r \in Slots : StreamAbandoned(r)
    \/ \E r \in Slots : Recycle(r)
    \/ Health
    \/ ResetCircuit

Spec == InitCommon /\ [][Next]_vars

---------------------------------------------------------------------------
(* Properties of request handling (Spec) *)

Responds(r, o) == NormalResponds(r, o) \/ StreamingResponds(r, o)

Failed(o) == o = RequestError \/ o >= 500

\* C5: when an attempt on a provider that is not the last one ends in a
\* transport error or a status >= 500, record_failure is applied once to that
\* provider's breaker and the request goes on to a later provider; a response
\* with status < 500 is what the client receives.
C5_FailoverAfterFailure ==
    [][\A r \in Slots, o \in Outcomes :
          Responds(r, o) =>
             LET i == reqs[r].cur
                 name == Providers[i]
             IN  /\ (Failed(o) /\ i < LastIndex) =>
                       /\ breakers'[name] =
                             is_open_effect(record_failure(breakers[name], now), now)
                       /\ reqs'[r].pc = "wait"
                       /\ reqs'[r].cur > i
                 /\ ~Failed(o) =>
                       /\ reqs'[r].response.from = i
                       /\ reqs'[r].response.status = o]_vars

\* C6: a response with status < 500 from provider i ends the request:
\* record_success is applied to i's breaker, the client gets that status from
\* that provider, and no provider after i is contacted.
C6_SuccessEndsRequest ==
    /\ [](\A r \in Slots :
            (reqs[r].lastHttp.from # 0 /\ reqs[r].lastHttp.status < 500) =>
                /\ reqs[r].pc \in {"done", "streaming"}
                /\ reqs[r].response.from = reqs[r].lastHttp.from
                /\ reqs[r].response.status = reqs[r].lastHttp.status
                /\ reqs[r].cur = reqs[r].lastHttp.from)
    /\ [][\A r \in Slots, o \in Outcomes :
            (Responds(r, o) /\ ~Failed(o)) =>
                LET name == Providers[reqs[r].cur]
                IN  /\ breakers'[name].failure_count = 0
                    /\ breakers'[name].tripped_at = breakers[name].tripped_at
                    /\ reqs'[r].lastHttp = [from |-> reqs[r].cur, status |-> o]]_vars

\* C6 witness: a 404 from a provider that is not the last one was returned to
\* the client of a buffered request
C6_Witness ==
    \E r \in Slots :
        /\ reqs[r].pc = "done"
        /\ reqs[r].response.status = 404
        /\ reqs[r].response.from = reqs[r].cur
        /\ reqs[r].cur < LastIndex

\* C7: a buffered request that ends without a status < 500 returns the last
\* HTTP response any of its attempts received, also when later attempts ended
\* in transport errors, and the synthetic 502 only if no attempt received one.
C7_LastResponseOr502 ==
    \A r \in Slots :
        (/\ reqs[r].pc = "done"
         /\ ~reqs[r].stream
         /\ reqs[r].response.status # 401
         /\ ~(reqs[r].lastHttp.from # 0 /\ reqs[r].lastHttp.status < 500))
           => IF reqs[r].lastHttp.from # 0
              THEN reqs[r].response = [from |-> reqs[r].lastHttp.from,
                                       status |-> reqs[r].lastHttp.status,
                                       kind |-> "upstream"]
              ELSE reqs[r].response = [from |-> 0, status |-> 502, kind |-> "synthetic"]

\* C7 witness: a 5xx response followed by a transport error on a later provider,
\* and the 5xx response was returned
C7_Witness ==
    \E r \in Slots :
        /\ reqs[r].pc = "done"
        /\ ~reqs[r].stream
        /\ reqs[r].lastHttp.from # 0
        /\ reqs[r].last_error > reqs[r].lastHttp.from
        /\ reqs[r].response.status = reqs[r].lastHttp.status
        /\ reqs[r].response.from = reqs[r].lastHttp.from

\* C8: request handling never increments the failure_count of the last
\* provider's breaker and never opens it.
C8_LastBreakerUntouched ==
    Providers[LastIndex] \in DOMAIN breakers =>
        /\ breakers[Providers[LastIndex]].failure_count = 0
        /\ breakers[Providers[LastIndex]].tripped_at = NoneT

\* C9: every authorized request makes at least one upstream attempt, and a
\* request that ends without a status < 500 has attempted the last provider.
C9_LastNeverSkipped ==
    \A r \in Slots :
        (reqs[r].pc \in {"wait", "streaming", "done"} /\ reqs[r].response.status # 401) =>
            /\ reqs[r].first # 0
            /\ (reqs[r].pc = "done" /\ reqs[r].response.status >= 500)
                  => reqs[r].cur = LastIndex

\* the provider a request starting now is forwarded to first when it does not
\* probe: the first whose breaker is not open, the last counting as not open
FirstNotOpen ==
    CHOOSE i \in 1..NumProviders :
        /\ i \notin OpenNow \/ i = LastIndex
        /\ \A j \in 1..(i - 1) : j \in OpenNow

\* C10: FailureThreshold failures in a row open the breaker of a provider that
\* is not the last one; a request that starts while that breaker is open never
\* contacts the provider, and its first attempt goes to the next provider whose
\* breaker is not open.
C10_OpenProviderNotContacted ==
    /\ [](\A n \in DOMAIN breakers :
            (hist[n].streak >= FailureThreshold /\ now - hist[n].since < ResetTimeout)
               => is_open(breakers[n], now))
    /\ [](\A r \in Slots :
            (reqs[r].pc = "wait" /\ reqs[r].cur < LastIndex)
               => reqs[r].cur \notin reqs[r].openAtStart)
    /\ [][\A r \in Slots, h \in SampleHeaders, b \in SampleBodies :
            (/\ StartRequest(r, h, b)
             /\ verify_access_token(h, AccessToken)
             /\ is_stream_request(b).raises = "none"
             /\ \E i \in OpenNow : i < LastIndex)
               => /\ reqs'[r].pc = "wait"
                  /\ reqs'[r].cur = FirstNotOpen]_vars

---------------------------------------------------------------------------
(* Properties of the response path (Spec) *)

\* C11: a client request gets at most one upstream response: once the status or
\* any body byte of a provider's response was handed to the client, nothing of
\* another provider's response is.
C11_OneUpstreamResponse ==
    /\ [](\A r \in Slots :
            /\ Cardinality(reqs[r].delivered) <= 1
            /\ reqs[r].response.from # 0 => reqs[r].delivered = {reqs[r].response.from})
    /\ [][\A r \in Slots :
            reqs[r].delivered # {} =>
                \/ reqs'[r].delivered = reqs[r].delivered
                \/ reqs'[r].pc = "idle"]_vars

\* C11 witness: a stream from a provider that is not the last one broke in the
\* middle of the body, and the client got that provider's response only
C11_Witness ==
    \E r \in Slots :
        /\ reqs[r].pc = "done"
        /\ reqs[r].exit = "upstream_error"
        /\ reqs[r].cur < LastIndex
        /\ reqs[r].delivered = {reqs[r].cur}

\* C12: after a streaming response was committed, an upstream failure in the
\* middle of the body or a client disconnect contacts no other provider and
\* applies record_failure to no breaker; the request ends with what was sent.
C12_NoFailoverAfterCommit ==
    /\ [][\A r \in Slots, how \in {"upstream_error", "client_gone"} :
            StreamEnds(r, how) =>
                /\ breakers' = breakers
                /\ reqs'[r].pc = "done"
                /\ reqs'[r].cur = reqs[r].cur
                /\ reqs'[r].response = reqs[r].response]_vars
    /\ [](\A r \in Slots :
            reqs[r].exit \in {"upstream_error", "client_gone"} =>
                /\ reqs[r].pc = "done"
                /\ reqs[r].response = [from |-> reqs[r].cur,
                                       status |-> reqs[r].lastHttp.status,
                                       kind |-> "stream"])

\* C12 witness: the client of a stream from a provider that is not the last one
\* went away in the middle of the body, while that provider's breaker had
\* counted no failure
C12_Witness ==
    \E r \in Slots :
        /\ reqs[r].pc = "done"
        /\ reqs[r].exit = "client_gone"
        /\ reqs[r].cur < LastIndex
        /\ breakers[Providers[reqs[r].cur]].failure_count = 0

\* C13: the streaming pipeline holds no upstream handle open once an attempt or
\* the request is over, whichever way it ended.
C13_HandlesClosed ==
    \A r \in Slots :
        /\ reqs[r].pc \in {"idle", "done", "raised"} => reqs[r].handles = {}
        /\ reqs[r].pc = "wait" => reqs[r].handles \subseteq {"client"}

\* token occurs in value, position by position
Occurs(token, value) ==
    \E i \in 0..(Len(value) - Len(token)) :
        \A j \in 1..Len(token) : value[i + j] = token[j]

\* C14: a request that is not authorized gets status 401, no upstream is
\* contacted for it, and no breaker is created or changed.
C14_UnauthorizedTouchesNothing ==
    /\ [][\A r \in Slots, h \in SampleHeaders, b \in SampleBodies :
            (/\ StartRequest(r, h, b)
             /\ AccessToken # <<>>
             /\ \A k \in DOMAIN h : ~Occurs(AccessToken, h[k]))
               => /\ reqs'[r].pc = "done"
                  /\ reqs'[r].response = [from |-> 0, status |-> 401, kind |-> "synthetic"]
                  /\ reqs'[r].first = 0
                  /\ breakers' = breakers]_vars
    /\ [](\A r \in Slots :
            reqs[r].response.status = 401 =>
                /\ reqs[r].pc = "done"
                /\ reqs[r].first = 0
                /\ reqs[r].lastHttp = NoHttp)

\* C14 witness: a 401 was returned while a breaker was open
C14_Witness ==
    \E r \in Slots :
        /\ reqs[r].pc = "done"
        /\ reqs[r].response.status = 401
        /\ OpenNow # {}

\* C16: no client request is left by an exception, whatever its body, its
\* headers, the state of the breakers and the outcomes of the upstream calls.
C16_NeverRaises ==
    \A r \in Slots : reqs[r].pc # "raised"

\* C20: the provider a request is forwarded to first is the lowest-indexed one
\* whose breaker is not open, the last provider counting as not open: the last
\* provider is chosen exactly when the breaker of every earlier one is open.
C20_SelectsFirstNotOpen ==
    [][\A r \in Slots, h \in SampleHeaders, b \in SampleBodies :
          (/\ StartRequest(r, h, b)
           /\ verify_access_token(h, AccessToken)
           /\ is_stream_request(b).raises = "none")
             => /\ reqs'[r].pc = "wait"
                /\ reqs'[r].cur = FirstNotOpen
                /\ reqs'[r].cur = LastIndex
                      <=> \A j \in 1..(LastIndex - 1) : j \in OpenNow]_vars

\* C24: a manual reset closes every breaker whatever its state: after
\* reset_all(), and hence after a POST /_reset_circuit is served, every breaker
\* has failure_count = 0, no tripped_at, is_open() false and remaining_time()
\* None.
AllClosed(brs, t) ==
    \A n \in DOMAIN brs :
        /\ brs[n] = [failure_count |-> 0, tripped_at |-> NoneT]
        /\ ~is_open(brs[n], t)
        /\ remaining_time(brs[n], t) = NoneT

C24_ManualResetCloses ==
    /\ [][ResetCircuit => AllClosed(breakers', now')]_vars
    /\ [][\A r \in Slots, h \in SampleHeaders, b \in SampleBodies :
            ClientRequest(r, PostResetCircuit, h, b)
               => AllClosed(breakers', now')]_vars

\* C25: GET /_health and POST /_reset_circuit are served by the management
\* handlers, without an access-token check: serving them is the status() or
\* reset_all() call and nothing else; no client request is started, none is
\* answered 401 and no provider is contacted.
C25_ManagementRoutesServed ==
    [][\A r \in Slots, h \in SampleHeaders, b \in SampleBodies :
          /\ ClientRequest(r, GetHealth, h, b)
                => reqs' = reqs /\ breakers' = status_effect(breakers, now)
          /\ ClientRequest(r, PostResetCircuit, h, b)
                => reqs' = reqs /\ breakers' = reset_all(breakers)]_vars

\* C26: the body of a synthetic answer is exact to the byte: a 401 carries
\* {"error":"Unauthorized"}, and a 502 carries {"error":"Bad Gateway"} or
\* {"error":"Bad Gateway","detail":"..."} with the detail of the error.
Details == {ErrorText, "All providers unavailable"}

C26_SyntheticBodiesExact ==
    \A r \in Slots :
        reqs[r].response.kind = "synthetic" =>
            /\ reqs[r].response.status = 401
                  => reqs[r].content = "{\"error\":\"Unauthorized\"}"
            /\ reqs[r].response.status = 502
                  => reqs[r].content \in
                        {"{\"error\":\"Bad Gateway\"}"}
                        \cup {"{\"error\":\"Bad Gateway\",\"detail\":\"" \o d \o "\"}" :
                                 d \in Details}

\* C31: a streaming request for which no provider gave response headers with a
\* status < 500 is answered with the synthetic 502, also when providers answered
\* with 5xx responses: the last 5xx response is not returned.
C31_StreamingAllFailedIs502 ==
    /\ [](\A r \in Slots :
            (reqs[r].stream /\ reqs[r].pc = "done" /\ reqs[r].exit = "none")
               => reqs[r].response = [from |-> 0, status |-> 502, kind |-> "synthetic"])
    /\ [][\A r \in Slots, o \in Outcomes :
            (StreamingResponds(r, o) /\ Failed(o) /\ reqs'[r].pc = "done")
               => /\ reqs'[r].response.status = 502
                  /\ reqs'[r].response.from = 0
                  /\ reqs'[r].delivered = {}]_vars

\* C31 witness: the last provider answered a streaming request with a 5xx
\* response, and the client got the synthetic 502
C31_Witness ==
    \E r \in Slots :
        /\ reqs[r].stream
        /\ reqs[r].pc = "done"
        /\ reqs[r].lastHttp.from = LastIndex
        /\ reqs[r].lastHttp.status >= 500
        /\ reqs[r].response.kind = "synthetic"
        /\ reqs[r].response.status = 502

\* the body is the text of a JSON object whose "stream" member is true
StreamTrue(b) ==
    /\ b.kind = "json"
    /\ b.value.type = "dict"
    /\ "stream" \in DOMAIN b.value.items
    /\ b.value.items.stream = [type |-> "bool", v |-> "True"]

\* C35: the body decides the pipeline: a request is handled by the streaming
\* handler exactly when its body is a JSON object whose "stream" member is the
\* boolean true; every other body (member missing, false, 1, "true", a JSON
\* value that is no object, a body that does not parse) is handled by the
\* buffered handler, and the model is none when the body is no JSON object.
C35_BodySelectsPipeline ==
    /\ [](\A b \in Bodies :
            /\ is_stream_request(b) = [raises |-> "none", value |-> StreamTrue(b)]
            /\ (b.kind # "json" \/ b.value.type # "dict")
                  => extract_model(b) = [raises |-> "none", value |-> PyNone])
    /\ [][\A r \in Slots, h \in SampleHeaders, b \in SampleBodies :
            (StartRequest(r, h, b) /\ verify_access_token(h, AccessToken))
               => /\ reqs'[r].pc \in {"wait", "done"}
                  /\ reqs'[r].stream <=> StreamTrue(b)]_vars

\* C37: a request ends after at most NumProviders upstream attempts when every
\* upstream call returns or fails: each answer to an attempt either ends the
\* request or is followed by one attempt on a provider after the one before, so
\* none is contacted twice, the attempt on the last provider ends the request,
\* and a request has one attempt in flight at a time (a streaming request holds
\* one upstream client while it waits).
C37_EndsWithinNAttempts ==
    /\ [](\A r \in Slots :
            reqs[r].pc = "wait" =>
                /\ reqs[r].cur \in reqs[r].first..NumProviders
                /\ reqs[r].first >= 1
                /\ reqs[r].handles = IF reqs[r].stream THEN {"client"} ELSE {})
    /\ [][\A r \in Slots :
            (reqs[r].pc = "wait" /\ reqs'[r].pc = "wait" /\ reqs'[r] # reqs[r])
               => reqs'[r].cur > reqs[r].cur]_vars
    /\ [][\A r \in Slots, o \in Outcomes :
            Responds(r, o) =>
               \/ reqs'[r].pc \in {"done", "streaming"}
               \/ reqs'[r].pc = "wait" /\ reqs'[r].cur > reqs[r].cur]_vars
    /\ [][\A r \in Slots, o \in Outcomes :
            (Responds(r, o) /\ reqs[r].cur = LastIndex) => reqs'[r].pc # "wait"]_vars

\* C37 witness: a request that was forwarded to provider 1 first is waiting for
\* the last provider, its NumProviders-th attempt
C37_Witness ==
    \E r \in Slots :
        /\ reqs[r].pc = "wait"
        /\ reqs[r].first = 1
        /\ reqs[r].cur = LastIndex
        /\ reqs[r].lastHttp.from = LastIndex - 1

\* CircuitBreakerConfig.probe_probability (0.05), in hundredths
ProbePercent == 5

\* values of the uniform draw r in [0, 1) a request would make, in hundredths
Draws == {0, ProbePercent - 1, ProbePercent, 99}

\* C21: with a uniform draw r made for the request, the request is a probe,
\* forwarded first to an open provider that is not the last one, exactly when
\* r < probe_probability and such a provider exists.
C21_ProbeIffDrawBelowProbability ==
    [][\A r \in Slots, h \in SampleHeaders, b \in SampleBodies, draw \in Draws :
          (/\ StartRequest(r, h, b)
           /\ verify_access_token(h, AccessToken)
           /\ is_stream_request(b).raises = "none")
             => ((draw < ProbePercent /\ OpenNow \ {LastIndex} # {})
                    <=> /\ reqs'[r].pc = "wait"
                        /\ reqs'[r].cur \in OpenNow \ {LastIndex})]_vars

\* the provider that follows provider req.cur in the attempt order fixed when
\* the request started: the next one whose breaker was not open then, the last
\* provider being always in the order
NextInOrder(req) ==
    CHOOSE j \in (req.cur + 1)..NumProviders :
        /\ j \notin req.openAtStart \/ j = LastIndex
        /\ \A k \in (req.cur + 1)..(j - 1) : k \in req.openAtStart

\* C30: the attempts of a request follow the order fixed when it started: the
\* first provider whose breaker is not open (the last counting as not open),
\* then, after each failed attempt, the next higher provider whose breaker was
\* not open at the start, the last provider always being attempted; one attempt
\* at a time and no provider twice.
C30_AttemptOrderFixedAtStart ==
    /\ [][\A r \in Slots, h \in SampleHeaders, b \in SampleBodies :
            (/\ StartRequest(r, h, b)
             /\ verify_access_token(h, AccessToken)
             /\ is_stream_request(b).raises = "none")
               => reqs'[r].pc = "wait" /\ reqs'[r].cur = FirstNotOpen]_vars
    /\ [][\A r \in Slots, o \in Outcomes :
            (Responds(r, o) /\ Failed(o) /\ reqs[r].cur < LastIndex)
               => /\ reqs'[r].pc = "wait"
                  /\ reqs'[r].cur = NextInOrder(reqs[r])
                  /\ reqs'[r].cur > reqs[r].cur]_vars

---------------------------------------------------------------------------
(* Two client requests in flight at once (SpecConcurrent).  The handlers   *)
(* are coroutines of one event loop: a stretch of code between two awaits  *)
(* runs without interruption, and the requests interleave at the awaits of *)
(* the upstream calls.  Each task serves one buffered, authorized request; *)
(* the registry starts in a state earlier requests can have left it in.    *)

Tasks == {1, 2}

\* the first provider's breaker as earlier requests leave it: not created yet,
\* closed, one failure short of the threshold, tripped at time 0, and tripped at
\* time 0 with a success recorded since; the other breakers are not created yet
AlmostTripped == [failure_count |-> FailureThreshold - 1, tripped_at |-> NoneT]
TrippedAtStart == [failure_count |-> FailureThreshold, tripped_at |-> 0]
OpenAfterSuccess == [failure_count |-> 0, tripped_at |-> 0]

Registries ==
    UNION {[S -> {CircuitBreaker, AlmostTripped, TrippedAtStart, OpenAfterSuccess}] :
              S \in SUBSET {Providers[1]}}

InitConcurrent ==
    /\ breakers \in Registries
    /\ hist = [n \in DOMAIN breakers |->
                 [HistNew EXCEPT !.streak = breakers[n].failure_count,
                                 !.since = IF breakers[n] = TrippedAtStart
                                           THEN 0 ELSE NoneT]]
    /\ now = 0
    /\ reqs = [r \in Tasks |-> IdleRequest]
    /\ callbacks = <<>>
    /\ lastCall = NoCall
    /\ helper = NoHelper

AuthorizedHeaders == {h \in SampleHeaders : verify_access_token(h, AccessToken)}
BufferedBodies ==
    {b \in SampleBodies : is_stream_request(b).raises = "none"
                             /\ ~is_stream_request(b).value}

NextConcurrent ==
    \/ Tick
    \/ \E r \in Tasks, h \in AuthorizedHeaders, b \in BufferedBodies :
          StartRequest(r, h, b)
    \/ \E r \in Tasks, o \in Outcomes : NormalResponds(r, o)

SpecConcurrent == InitConcurrent /\ [][NextConcurrent]_vars

\* C22: the registry holds one breaker per provider name for all the requests
\* in flight: a breaker once created is never removed or replaced by a new one,
\* a request that starts changes the breakers it finds only by their own
\* is_open(), and every failure any request recorded is counted on the one
\* breaker of its provider.
C22_OneBreakerPerName ==
    /\ [](\A n \in DOMAIN breakers : breakers[n].failure_count = hist[n].streak)
    /\ [][\A n \in DOMAIN breakers : n \in DOMAIN breakers']_vars
    /\ [][\A r \in Tasks, h \in AuthorizedHeaders, b \in BufferedBodies :
            StartRequest(r, h, b)
               => \A n \in DOMAIN breakers :
                     breakers'[n] \in {breakers[n], is_open_effect(breakers[n], now)}]_vars

\* C22 witness: both requests were forwarded to provider 1 while the other was in
\* flight, both failed there, and provider 1's one breaker counted both failures
C22_Witness ==
    /\ \A r \in Tasks : reqs[r].pc = "wait" /\ reqs[r].first = 1 /\ reqs[r].cur > 1
    /\ breakers[Providers[1]].failure_count >= Cardinality(Tasks)
    /\ now = 0

\* C29: a success recorded on a provider whose breaker is open sets the
\* breaker's failure_count to 0 and leaves it open, and a request that starts is
\* not forwarded first to a provider whose breaker is open, whatever the
\* breaker's failure_count, as long as the window has not expired.
C29_SuccessLeavesBreakerOpen ==
    /\ [][\A r \in Tasks, o \in Outcomes :
            (/\ NormalResponds(r, o)
             /\ o # RequestError /\ ~is_failure_response(o)
             /\ reqs[r].cur \in OpenNow)
               => LET n == Providers[reqs[r].cur]
                  IN  /\ breakers'[n].failure_count = 0
                      /\ breakers'[n].tripped_at = breakers[n].tripped_at
                      /\ is_open(breakers'[n], now)]_vars
    /\ [][\A r \in Tasks, h \in AuthorizedHeaders, b \in BufferedBodies :
            StartRequest(r, h, b)
               => \A i \in OpenNow : ~(reqs'[r].pc = "wait" /\ reqs'[r].cur = i)]_vars
    /\ [](\A n \in DOMAIN breakers :
            breakers[n].tripped_at # NoneT /\ now - breakers[n].tripped_at < ResetTimeout
               => is_open(breakers[n], now))

\* C29 witness: two requests were in flight on provider 1; the failure of one
\* opened provider 1's breaker, then the other was answered with a success by
\* provider 1, which left the breaker open with failure_count 0
C29_Witness ==
    \E r, q \in Tasks :
        /\ reqs[r].pc = "done"
        /\ reqs[r].response.from = 1
        /\ reqs[r].response.kind = "upstream"
        /\ breakers[Providers[1]].failure_count = 0
        /\ 1 \in OpenNow
        /\ reqs[q].pc = "wait"
        /\ reqs[q].first = 1
        /\ reqs[q].cur > 1

\* C32: a request logs the 'opened' event of a provider exactly at the failure
\* that takes the provider's breaker from not open to open: a failure on a
\* breaker that was open before it logs nothing, and so does every step in which
\* no breaker opens.
C32_OpenedOncePerTransition ==
    [][\A r \in Tasks, o \in Outcomes :
          NormalResponds(r, o) =>
             LET i == reqs[r].cur
                 n == Providers[i]
             IN  /\ i \in reqs'[r].opened
                       <=> /\ Failed(o)
                           /\ ~is_open(breakers[n], now)
                           /\ is_open(breakers'[n], now)
                 /\ reqs'[r].opened \ {i} = reqs[r].opened]_vars

\* C33: the calls that requests in flight at once make on one breaker take
\* effect one after the other: each answered attempt changes its provider's
\* breaker as record_success(), or record_failure() and then is_open(), applied
\* to the breaker the step found, does; failure_count is the number of failures
\* recorded since the last success or auto-close (no lost update), and
\* tripped_at is the time of the failure that reached the threshold last.
C33_BreakerCallsSerializable ==
    /\ [][\A r \in Tasks, o \in Outcomes :
            NormalResponds(r, o) =>
               LET n == Providers[reqs[r].cur]
               IN  breakers'[n] =
                      IF Failed(o)
                      THEN is_open_effect(record_failure(breakers[n], now), now)
                      ELSE record_success(breakers[n])]_vars
    /\ [](\A n \in DOMAIN breakers :
            /\ breakers[n].failure_count = hist[n].streak
            /\ hist[n].since # NoneT => breakers[n].tripped_at = hist[n].since)

\* C33 witness: two requests in flight on provider 1, whose breaker was one
\* failure short of the threshold, both failed there: both failures are counted
C33_Witness ==
    /\ \A r \in Tasks : reqs[r].first = 1 /\ reqs[r].cur > 1
    /\ breakers[Providers[1]].failure_count = FailureThreshold + 1
    /\ hist[Providers[1]].streak = FailureThreshold + 1
    /\ 1 \in OpenNow

AutoClosed ==
    {n \in DOMAIN breakers : breakers[n].tripped_at # NoneT
                               /\ breakers'[n].tripped_at = NoneT}

\* C23: with requests in flight at once, each auto-close of a breaker is done by
\* exactly one is_open() call, which emits one auto-reset event with the
\* provider's name; the is_open() calls after it find the breaker closed and emit
\* nothing.
C23_OneEventPerAutoClose ==
    [][/\ Len(callbacks') = Len(callbacks) + Cardinality(AutoClosed)
       /\ \A n \in AutoClosed :
             \E k \in (Len(callbacks) + 1)..Len(callbacks') : callbacks'[k] = n]_vars

---------------------------------------------------------------------------
(* The header helpers of proxy.py called directly (SpecHeaders) *)

MaxValueLen == 2        \* longest header value

Alphabet == {"a", "x"}
HeaderValues == UNION {[1..n -> Alphabet] : n \in 0..MaxValueLen}

\* a hop-by-hop name, a name the code does not list, and an end-to-end name
HeaderNames ==
    { <<"H", "o", "s", "t">>,
      <<"C", "O", "N", "T", "E", "N", "T", "-", "L", "E", "N", "G", "T", "H">>,
      <<"x", "-", "a", "a">> }

HeaderMaps == UNION {[S -> HeaderValues] : S \in SUBSET HeaderNames}

AccessTokens == { <<>>, <<"a">>, <<"a", "a">> }
ProviderTokens == { <<"x">>, <<"x", "a">>, <<"x", "x">> }

InitHeaders ==
    /\ InitState
    /\ \E H \in HeaderMaps, T \in AccessTokens, T2 \in ProviderTokens :
          helper = [NoHelper EXCEPT !.headers = H, !.access_token = T,
                                    !.provider_token = T2]

CallHelper(op, result) ==
    /\ helper' = [helper EXCEPT !.op = op, !.result = result]
    /\ UNCHANGED <<breakers, now, reqs, callbacks, hist, lastCall>>

CallVerifyAccessToken ==
    CallHelper("verify_access_token",
               verify_access_token(helper.headers, helper.access_token))

CallFilterHeaders ==
    CallHelper("filter_headers", filter_headers(helper.headers))

CallReplaceToken ==
    CallHelper("replace_token_in_headers",
               replace_token_in_headers(helper.headers, helper.access_token,
                                        helper.provider_token))

CallPrepareHeaders ==
    CallHelper("prepare_headers",
               prepare_headers(helper.headers, helper.provider_token,
                               helper.access_token))

NextHeaders ==
    \/ CallVerifyAccessToken
    \/ CallFilterHeaders
    \/ CallReplaceToken
    \/ CallPrepareHeaders

SpecHeaders == InitHeaders /\ [][NextHeaders]_vars

---------------------------------------------------------------------------
(* Properties of the header helpers (SpecHeaders) *)

\* C15: the auth check accepts iff the access token is empty or some header
\* value contains it as a substring; header names are not looked at.
C15_AuthIffValueContainsToken ==
    helper.op = "verify_access_token" =>
        (helper.result <=>
            \/ helper.access_token = <<>>
            \/ \E k \in DOMAIN helper.headers :
                  Occurs(helper.access_token, helper.headers[k]))

\* C15 witness: the token occurs in a header name and in no header value, and
\* the check refused
C15_Witness ==
    /\ helper.op = "verify_access_token"
    /\ helper.access_token # <<>>
    /\ \E k \in DOMAIN helper.headers : Occurs(helper.access_token, k)
    /\ helper.result = FALSE

\* the hop-by-hop names of the specification
SpecHopByHop ==
    HOP_BY_HOP_HEADERS \cup { <<"c", "o", "n", "t", "e", "n", "t", "-", "l", "e", "n", "g", "t", "h">>,
                              <<"c", "o", "n", "t", "e", "n", "t", "-", "e", "n", "c", "o", "d", "i", "n", "g">> }

\* C17: filter(H) has no header whose lowercased name is one of the eleven
\* hop-by-hop names, and has every other header of H unchanged.
C17_FilterDropsHopByHop ==
    helper.op = "filter_headers" =>
        /\ DOMAIN helper.result =
              {k \in DOMAIN helper.headers : str_lower(k) \notin SpecHopByHop}
        /\ \A k \in DOMAIN helper.result : helper.result[k] = helper.headers[k]

\* the number of occurrences of token in value, counted from the left without
\* overlap
RECURSIVE Count(_, _)
Count(token, value) ==
    IF token = <<>> \/ ~Occurs(token, value) THEN 0
    ELSE LET i == CHOOSE i \in 0..(Len(value) - Len(token)) :
                     /\ \A j \in 1..Len(token) : value[i + j] = token[j]
                     /\ \A h \in 0..(i - 1) :
                           \E j \in 1..Len(token) : value[h + j] # token[j]
         IN  1 + Count(token, SubSeq(value, i + Len(token) + 1, Len(value)))

\* the occurrences of token in all values of a header map
RECURSIVE CountAll(_, _)
CountAll(token, headers) ==
    IF DOMAIN headers = {} THEN 0
    ELSE LET k == CHOOSE k \in DOMAIN headers : TRUE
         IN  Count(token, headers[k])
             + CountAll(token, [n \in DOMAIN headers \ {k} |-> headers[n]])

Chars(str) == {str[i] : i \in 1..Len(str)}

C19_EmptyTokenIsIdentity ==
    (helper.op = "replace_token_in_headers" /\ helper.access_token = <<>>) =>
        helper.result = helper.headers

=============================================================================
